---- MODULE Spec2Model ----
(***************************************************************************)
(* firestore-cli: one process invocation of the command line client.       *)
(*                                                                         *)
(* The state is the process's command line and environment (fixed by Init),*)
(* the package-level variables of firestore-cli.go (viper's loaded config, *)
(* verbose, client), the locals of the running command handler, the two    *)
(* output streams, the exit status, and the log of the calls made to the   *)
(* Firestore SDK.  One action per step of main(): initConfig, cobra's      *)
(* argument validation, preRunE, the three RunE handlers, one turn of the  *)
(* loop of iterate, the deferred iter.Stop(), and the end of main.         *)
(***************************************************************************)
EXTENDS Integers, Sequences, FiniteSets, TLC

VARIABLES
    pc,          \* position in main(): initConfig, args, preRunE, runE, loop, defer, main, exited
    cmd,         \* the sub-command named on the command line
    argsOk,      \* whether the positional arguments satisfy the command's Args validator
    literal,     \* args[2] of `where`, a sequence of characters
    flags,       \* --project / --collection: [changed, val] per key
    flagVerbose, \* --verbose
    limit,       \* --limit
    unlimited,   \* --unlimited
    fs,          \* home directory and config file found by viper
    streamLen,   \* number of documents the opened result stream holds
    viperConfig, \* viper's config map after ReadInConfig
    verbose,     \* package variable verbose
    client,      \* package variable client is set
    c,           \* loop counter of iterate
    delivered,   \* documents iter.Next() has returned so far
    query,       \* the predicate value handed to Where
    err,         \* the error the command returns to main ("nil" for none)
    stdout,      \* lines written to standard output
    stderr,      \* lines written to standard error
    exitCode,    \* process exit status (meaningful when pc = "exited")
    storeLog,    \* calls made to the Firestore SDK, in order
    fault        \* history: the environment failure that occurred, "none" if none

vars == <<pc, cmd, argsOk, literal, flags, flagVerbose, limit, unlimited, fs,
          streamLen, viperConfig, verbose, client, c, delivered, query, err,
          stdout, stderr, exitCode, storeLog, fault>>

(***************************************************************************)
(* Bounds of the model.                                                    *)
(***************************************************************************)
MaxDocs == 4
MaxLimit == 3
MaxLitLen == 3

(***************************************************************************)
(* Program constants.                                                      *)
(***************************************************************************)
DefaultLimit == 100
Base == 10
BitSize == 32
ExitOk == 0
ExitError == 1
ExitPanic == 2

Keys == {"project", "collection"}
NoKey == "<no key>"
Nil == "nil"

(***************************************************************************)
(* strconv.ParseInt(args[2], 10, 32), as `where` calls it.  A string is a  *)
(* sequence of one-character strings.  TLC's integers are 32 bits wide, so *)
(* a magnitude is kept exactly below the cutoff 2^(BitSize-1) and          *)
(* symbolically at ("cutoff") and beyond ("above") it.  `where` only tests *)
(* err == nil, so syntax and range errors are one failure here.            *)
(***************************************************************************)
Digits == <<"0", "1", "2", "3", "4", "5", "6", "7", "8", "9">>

IsDigit(ch) == \E i \in 1..Base : Digits[i] = ch

DigitVal(ch) == (CHOOSE i \in 1..Base : Digits[i] = ch) - 1

RECURSIVE Pow2(_)
Pow2(n) == IF n = 0 THEN 1 ELSE 2 * Pow2(n - 1)

\* cutoff - 1, the largest value of the bit size
MaxInt == Pow2(BitSize - 2) + (Pow2(BitSize - 2) - 1)

ParseFailure == [ok |-> FALSE, mag |-> "below", un |-> 0]

\* n = n*base + d of ParseUint's loop
Accumulate(acc, d) ==
    IF acc.mag # "below" THEN [acc EXCEPT !.mag = "above"]
    ELSE IF acc.un <= (MaxInt - d) \div Base
         THEN [acc EXCEPT !.un = acc.un * Base + d]
    ELSE IF d >= 1 /\ acc.un <= (MaxInt - (d - 1)) \div Base
              /\ acc.un * Base + (d - 1) = MaxInt
         THEN [acc EXCEPT !.mag = "cutoff", !.un = 0]
    ELSE [acc EXCEPT !.mag = "above", !.un = 0]

RECURSIVE ParseUintFrom(_, _, _)
ParseUintFrom(s, i, acc) ==
    IF i > Len(s) THEN acc
    ELSE IF ~IsDigit(s[i]) THEN ParseFailure
    ELSE ParseUintFrom(s, i + 1, Accumulate(acc, DigitVal(s[i])))

ParseUint(s) ==
    IF s = <<>> THEN ParseFailure
    ELSE ParseUintFrom(s, 1, [ok |-> TRUE, mag |-> "below", un |-> 0])

\* faulty variant: the negative bound tested like the positive one
OutOfRangeUnsigned(neg, mag) == mag # "below"

\* !neg && un >= cutoff, neg && un > cutoff
OutOfRange(neg, mag) ==
    \/ ~neg /\ mag # "below"
    \/ neg /\ mag = "above"

ParseInt(s) ==
    IF s = <<>> THEN [ok |-> FALSE, val |-> 0]
    ELSE LET neg == s[1] = "-"
             s1 == IF s[1] \in {"+", "-"} THEN Tail(s) ELSE s
             u == ParseUint(s1)
         IN  IF ~u.ok \/ OutOfRange(neg, u.mag) THEN [ok |-> FALSE, val |-> 0]
             ELSE IF ~neg THEN [ok |-> TRUE, val |-> u.un]
             ELSE IF u.mag = "cutoff" THEN [ok |-> TRUE, val |-> (0 - MaxInt) - 1]
             ELSE [ok |-> TRUE, val |-> 0 - u.un]

\* the value `where` places in the predicate: int64 if ParseInt succeeds, else args[2]
WhereValue(s) ==
    LET r == ParseInt(s)
    IN  IF r.ok THEN [type |-> "int64", int |-> r.val, str |-> <<>>]
        ELSE [type |-> "string", int |-> 0, str |-> s]

NoQuery == [type |-> "none", int |-> 0, str |-> <<>>]

(***************************************************************************)
(* The literals the model feeds to `where`.                                *)
(***************************************************************************)
Alphabet == {"0", "1", "9", "-", "+", "a"}

ShortLiterals == UNION {[1..n -> Alphabet] : n \in 0..MaxLitLen}

BoundaryLiterals ==
    { <<"2","1","4","7","4","8","3","6","4","7">>,
      <<"2","1","4","7","4","8","3","6","4","8">>,
      <<"+","2","1","4","7","4","8","3","6","4","7">>,
      <<"-","2","1","4","7","4","8","3","6","4","8">>,
      <<"-","2","1","4","7","4","8","3","6","4","9">>,
      <<"0","0","2","1","4","7","4","8","3","6","4","7">>,
      <<"4","2","9","4","9","6","7","2","9","6">>,
      <<"3","0","0","0","0","0","0","0","0","0">>,
      <<"9","9","9","9","9","9","9","9","9","9","9","9","9","9","9","9","9","9","9","9">>,
      <<"2","1","4","7","4","8","3","6","4","8","a">> }

Literals == ShortLiterals \cup BoundaryLiterals

\* the literals of a whole run: one integer, one not
RunLiterals == {<<"1", "9">>, <<"1", "9", "a">>}

(***************************************************************************)
(* Configuration: pflags bound into viper, and the config file.            *)
(***************************************************************************)
FlagStates ==
    { [changed |-> FALSE, val |-> ""],
      [changed |-> TRUE, val |-> ""],
      [changed |-> TRUE, val |-> "from-flag"] }

FileContents == [Keys -> {NoKey, "from-file"}]

NoContent == [k \in Keys |-> NoKey]

FileSystems ==
    { [home |-> FALSE, file |-> "notfound", content |-> NoContent],
      [home |-> TRUE, file |-> "notfound", content |-> NoContent],
      [home |-> TRUE, file |-> "bad", content |-> NoContent] }
    \cup { [home |-> TRUE, file |-> "ok", content |-> f] : f \in FileContents }

\* faulty variant: the config file's value wins over a flag given on the command line
GetStringFileFirst(key) ==
    IF viperConfig[key] # NoKey THEN viperConfig[key]
    ELSE IF flags[key].changed THEN flags[key].val
    ELSE ""

\* viper.GetString of a key bound with BindPFlag: changed flag, config file, flag default
GetString(key) ==
    IF flags[key].changed THEN flags[key].val
    ELSE IF viperConfig[key] # NoKey THEN viperConfig[key]
    ELSE ""

\* faulty variant: only the project is required
validateProjectOnly ==
    IF GetString("project") = "" THEN "project undefined" ELSE Nil

validateRequiredParams ==
    IF GetString("project") = "" THEN "project undefined"
    ELSE IF GetString("collection") = "" THEN "collection undefined"
    ELSE Nil

(***************************************************************************)
(* Output lines.                                                           *)
(***************************************************************************)
Line(kind, text, doc) == [kind |-> kind, text |-> text, doc |-> doc]

JsonLine(doc) == Line("json", "", doc)

Limits == ((0 - 1) .. MaxLimit) \cup {DefaultLimit}

(***************************************************************************)
(* Init: the process as main() starts, for every command line and          *)
(* environment of the bounds.  --limit and --unlimited exist on            *)
(* `documents` and `where` only; `documents` has no Args validator.        *)
(***************************************************************************)
InitProgram ==
    /\ viperConfig = NoContent
    /\ verbose = FALSE
    /\ client = FALSE
    /\ c = 0
    /\ delivered = 0
    /\ query = NoQuery
    /\ err = Nil
    /\ stdout = <<>>
    /\ stderr = <<>>
    /\ exitCode = ExitOk
    /\ storeLog = <<>>
    /\ fault = "none"

Init ==
    /\ InitProgram
    /\ pc = "initConfig"
    /\ cmd \in {"get", "documents", "where"}
    /\ argsOk \in IF cmd = "documents" THEN {TRUE} ELSE BOOLEAN
    /\ literal \in IF cmd = "where" THEN RunLiterals ELSE {<<>>}
    /\ flags \in [Keys -> FlagStates]
    /\ flagVerbose \in BOOLEAN
    /\ limit \in IF cmd = "get" THEN {DefaultLimit} ELSE Limits
    /\ unlimited \in IF cmd = "get" THEN {FALSE} ELSE BOOLEAN
    /\ fs \in FileSystems
    /\ streamLen \in IF cmd = "get" THEN {0} ELSE 0..MaxDocs

(***************************************************************************)
(* initConfig, run by cobra.OnInitialize before the command.               *)
(***************************************************************************)
initConfig ==
    /\ pc = "initConfig"
    /\ \/ \* homedir.Dir() fails: Println(err); os.Exit(1)
          /\ ~fs.home
          /\ stdout' = Append(stdout, Line("error", "homedir", 0))
          /\ exitCode' = ExitError
          /\ fault' = "homedir"
          /\ pc' = "exited"
          /\ UNCHANGED <<viperConfig, stderr>>
       \/ \* ConfigFileNotFoundError: the hint is printed and the run goes on
          /\ fs.home /\ fs.file = "notfound"
          /\ stdout' = Append(stdout, Line("configNotFound", "", 0))
          /\ pc' = "args"
          /\ UNCHANGED <<viperConfig, stderr, exitCode, fault>>
       \/ \* any other read error: panic
          /\ fs.home /\ fs.file = "bad"
          /\ stderr' = Append(stderr, Line("panic", "Fatal error config file", 0))
          /\ exitCode' = ExitPanic
          /\ fault' = "configRead"
          /\ pc' = "exited"
          /\ UNCHANGED <<viperConfig, stdout>>
       \/ \* the file is read
          /\ fs.home /\ fs.file = "ok"
          /\ viperConfig' = fs.content
          /\ pc' = "args"
          /\ UNCHANGED <<stdout, stderr, exitCode, fault>>
    /\ UNCHANGED <<cmd, argsOk, literal, flags, flagVerbose, limit, unlimited, fs,
                   streamLen, verbose, client, c, delivered, query, err, storeLog>>

(***************************************************************************)
(* cobra.ExactArgs(1) of get, cobra.ExactArgs(3) of where.                 *)
(***************************************************************************)
validateArgs ==
    /\ pc = "args"
    /\ IF argsOk
       THEN pc' = "preRunE" /\ err' = err
       ELSE pc' = "main" /\ err' = "wrong number of args"
    /\ UNCHANGED <<cmd, argsOk, literal, flags, flagVerbose, limit, unlimited, fs,
                   streamLen, viperConfig, verbose, client, c, delivered, query,
                   stdout, stderr, exitCode, storeLog, fault>>

(***************************************************************************)
(* preRunE: validateRequiredParams, the verbose flag, initFirestoreClient. *)
(***************************************************************************)
preRunE ==
    /\ pc = "preRunE"
    /\ IF validateRequiredParams # Nil
       THEN /\ err' = "unable to validate required params"
            /\ pc' = "main"
            /\ UNCHANGED <<verbose, client, storeLog, fault>>
       ELSE /\ verbose' = flagVerbose
            /\ storeLog' = Append(storeLog, "NewClient")
            /\ \/ /\ client' = TRUE
                  /\ pc' = "runE"
                  /\ UNCHANGED <<err, fault>>
               \/ /\ err' = "unable to create firestore client"
                  /\ fault' = "newClient"
                  /\ pc' = "main"
                  /\ UNCHANGED client
    /\ UNCHANGED <<cmd, argsOk, literal, flags, flagVerbose, limit, unlimited, fs,
                   streamLen, viperConfig, c, delivered, query, stdout, stderr,
                   exitCode>>

(***************************************************************************)
(* get: one fetch, one JSON line.                                          *)
(***************************************************************************)
\* faulty variant: the document is printed whatever Get returned
getIgnoringError ==
    /\ pc = "runE" /\ cmd = "get"
    /\ storeLog' = Append(storeLog, "Get")
    /\ \/ err' = "unable to get document" /\ fault' = "fetch"
       \/ UNCHANGED <<err, fault>>
    /\ stdout' = Append(stdout, JsonLine(1))
    /\ pc' = "main"
    /\ UNCHANGED <<cmd, argsOk, literal, flags, flagVerbose, limit, unlimited, fs,
                   streamLen, viperConfig, verbose, client, c, delivered, query,
                   stderr, exitCode>>

get ==
    /\ pc = "runE" /\ cmd = "get"
    /\ storeLog' = Append(storeLog, "Get")
    /\ LET out == IF verbose THEN Append(stdout, Line("verbose", "Finding", 0))
                  ELSE stdout
       IN  \/ \* docRef.Get fails: not found, timeout, transport
              /\ err' = "unable to get document"
              /\ fault' = "fetch"
              /\ stdout' = out
           \/ \* jsonString fails
              /\ err' = "unable to marshal document to json"
              /\ fault' = "encode"
              /\ stdout' = out
           \/ /\ stdout' = Append(out, JsonLine(1))
              /\ UNCHANGED <<err, fault>>
    /\ pc' = "main"
    /\ UNCHANGED <<cmd, argsOk, literal, flags, flagVerbose, limit, unlimited, fs,
                   streamLen, viperConfig, verbose, client, c, delivered, query,
                   stderr, exitCode>>

(***************************************************************************)
(* documents and where: open the stream, defer iter.Stop(), enter iterate  *)
(* (the flags are read, c := 1).                                           *)
(***************************************************************************)
documents ==
    /\ pc = "runE" /\ cmd = "documents"
    /\ storeLog' = Append(storeLog, "Documents")
    /\ c' = 1
    /\ pc' = "loop"
    /\ UNCHANGED <<cmd, argsOk, literal, flags, flagVerbose, limit, unlimited, fs,
                   streamLen, viperConfig, verbose, client, delivered, query, err,
                   stdout, stderr, exitCode, fault>>

where ==
    /\ pc = "runE" /\ cmd = "where"
    /\ query' = WhereValue(literal)
    /\ stdout' = IF flagVerbose THEN Append(stdout, Line("verbose", "Querying", 0))
                 ELSE stdout
    /\ storeLog' = Append(storeLog, "Documents")
    /\ c' = 1
    /\ pc' = "loop"
    /\ UNCHANGED <<cmd, argsOk, literal, flags, flagVerbose, limit, unlimited, fs,
                   streamLen, viperConfig, verbose, client, delivered, err,
                   stderr, exitCode, fault>>

(***************************************************************************)
(* iterate: one turn of the for loop.                                      *)
(***************************************************************************)
\* faulty variant: --unlimited is ignored
LoopBreaksAtLimit(unl, cnt, lim) == cnt >= lim

\* if !unlimited && c >= limit { break }
LoopBreaks(unl, cnt, lim) == ~unl /\ cnt >= lim

\* faulty variant: a document that cannot be encoded is skipped and the loop goes on
encodeFailsSkipped ==
    /\ fault' = "encode"
    /\ pc' = "loop"
    /\ UNCHANGED <<err, stdout, c>>

\* jsonString returns an error: iterate returns it
encodeFails ==
    /\ err' = "unable to marshal document to json"
    /\ fault' = "encode"
    /\ pc' = "defer"
    /\ UNCHANGED <<stdout, c>>

iterate ==
    /\ pc = "loop"
    /\ storeLog' = Append(storeLog, "Next")
    /\ \/ \* iterator.Done
          /\ delivered = streamLen
          /\ pc' = "defer"
          /\ UNCHANGED <<delivered, err, fault, stdout, c>>
       \/ \* iter.Next fails: timeout, transport
          /\ err' = "unable to iterate documents"
          /\ fault' = "fetch"
          /\ pc' = "defer"
          /\ UNCHANGED <<delivered, stdout, c>>
       \/ \* a document
          /\ delivered < streamLen
          /\ delivered' = delivered + 1
          /\ \/ encodeFails
             \/ /\ stdout' = Append(stdout, JsonLine(delivered + 1))
                /\ IF LoopBreaks(unlimited, c, limit)
                   THEN pc' = "defer" /\ c' = c
                   ELSE pc' = "loop" /\ c' = c + 1
                /\ UNCHANGED <<err, fault>>
    /\ UNCHANGED <<cmd, argsOk, literal, flags, flagVerbose, limit, unlimited, fs,
                   streamLen, viperConfig, verbose, client, query, stderr, exitCode>>

\* faulty variant: the handler returns without stopping the iterator
iterStopSkipped ==
    /\ pc = "defer"
    /\ pc' = "main"
    /\ UNCHANGED <<cmd, argsOk, literal, flags, flagVerbose, limit, unlimited, fs,
                   streamLen, viperConfig, verbose, client, c, delivered, query,
                   err, stdout, stderr, exitCode, storeLog, fault>>

\* defer iter.Stop(), run as documents / where returns
iterStop ==
    /\ pc = "defer"
    /\ storeLog' = Append(storeLog, "Stop")
    /\ pc' = "main"
    /\ UNCHANGED <<cmd, argsOk, literal, flags, flagVerbose, limit, unlimited, fs,
                   streamLen, viperConfig, verbose, client, c, delivered, query,
                   err, stdout, stderr, exitCode, fault>>

(***************************************************************************)
(* main, after rootCmd.Execute() has returned.                             *)
(***************************************************************************)
\* faulty variant: the failure exits 1 without printing the error
mainSilent ==
    /\ pc = "main"
    /\ exitCode' = IF err # Nil THEN ExitError ELSE ExitOk
    /\ pc' = "exited"
    /\ UNCHANGED <<cmd, argsOk, literal, flags, flagVerbose, limit, unlimited, fs,
                   streamLen, viperConfig, verbose, client, c, delivered, query,
                   err, stdout, stderr, storeLog, fault>>

main ==
    /\ pc = "main"
    /\ IF err # Nil
       THEN /\ stdout' = Append(stdout, Line("error", err, 0))
            /\ exitCode' = ExitError
       ELSE /\ stdout' = stdout
            /\ exitCode' = ExitOk
    /\ pc' = "exited"
    /\ UNCHANGED <<cmd, argsOk, literal, flags, flagVerbose, limit, unlimited, fs,
                   streamLen, viperConfig, verbose, client, c, delivered, query,
                   err, stderr, storeLog, fault>>

Next ==
    \/ initConfig
    \/ validateArgs
    \/ preRunE
    \/ get
    \/ documents
    \/ where
    \/ iterate
    \/ iterStop
    \/ main

Spec == Init /\ [][Next]_vars

(***************************************************************************)
(* The value typing of `where` alone, over every literal of the bounds.    *)
(***************************************************************************)
InitParse ==
    /\ InitProgram
    /\ pc = "coerce"
    /\ cmd = "where"
    /\ argsOk = TRUE
    /\ literal \in Literals
    /\ flags = [k \in Keys |-> [changed |-> TRUE, val |-> "from-flag"]]
    /\ flagVerbose = FALSE
    /\ limit = DefaultLimit
    /\ unlimited = FALSE
    /\ fs = [home |-> TRUE, file |-> "notfound", content |-> NoContent]
    /\ streamLen = 0

\* lines 245-251 of where
coerce ==
    /\ pc = "coerce"
    /\ query' = WhereValue(literal)
    /\ pc' = "coerced"
    /\ UNCHANGED <<cmd, argsOk, literal, flags, flagVerbose, limit, unlimited, fs,
                   streamLen, viperConfig, verbose, client, c, delivered, err,
                   stdout, stderr, exitCode, storeLog, fault>>

NextParse == coerce

SpecParse == InitParse /\ [][NextParse]_vars

(***************************************************************************)
(* Vocabulary of the properties, stated on the inputs and the outputs.     *)
(***************************************************************************)
IsJson(l) == l.kind = "json"

\* the documents printed so far, in print order
JsonDocs ==
    LET js == SelectSeq(stdout, IsJson)
    IN  [i \in 1..Len(js) |-> js[i].doc]

\* the first n elements of a stream, in stream order
FirstN(n) == [i \in 1..n |-> i]

Count(op) == Cardinality({i \in 1..Len(storeLog) : storeLog[i] = op})

\* the setting the command line and the file system call for
Resolved(k) ==
    IF flags[k].changed THEN flags[k].val
    ELSE IF fs.file = "ok" /\ fs.content[k] # NoKey THEN fs.content[k]
    ELSE ""

SettingsPresent == Resolved("project") # "" /\ Resolved("collection") # ""

\* the configuration is resolved and the arguments are well formed
ReachesPreRun == fs.home /\ fs.file # "bad" /\ argsOk

\* a run nothing goes wrong in
CleanRun == ReachesPreRun /\ SettingsPresent /\ fault = "none"

ErrorOnStdout == stdout # <<>> /\ stdout[Len(stdout)].kind = "error"

Listing == cmd \in {"documents", "where"}

(***************************************************************************)
(* C1.  With --unlimited unset and a stream of at least N = --limit        *)
(* documents, documents / where print exactly the first N documents and    *)
(* then stop.  (Stated for N >= 0: a count of documents.)                  *)
(***************************************************************************)
C1_PrintsExactlyLimit ==
    (pc = "exited" /\ Listing /\ ~unlimited /\ CleanRun
        /\ limit >= 0 /\ streamLen >= limit)
    => /\ JsonDocs = FirstN(limit)
       /\ Count("Next") = limit

(***************************************************************************)
(* C2.  documents --unlimited prints exactly the S documents of the        *)
(* collection, in stream order, whatever --limit is, and exits 0.          *)
(***************************************************************************)
C2_UnlimitedPrintsAll ==
    (pc = "exited" /\ cmd = "documents" /\ unlimited /\ CleanRun)
    => /\ JsonDocs = FirstN(streamLen)
       /\ err = Nil
       /\ exitCode = ExitOk

C2_Witness ==
    /\ pc = "exited" /\ cmd = "documents" /\ unlimited /\ CleanRun
    /\ limit = 1 /\ streamLen = 3 /\ Len(JsonDocs) = 3

(***************************************************************************)
(* C3.  With --unlimited unset, the number of documents printed so far     *)
(* never exceeds --limit.  (Stated for --limit >= 0: no run prints fewer   *)
(* than zero documents.)                                                   *)
(***************************************************************************)
C3_AtMostLimit ==
    (Listing /\ ~unlimited /\ limit >= 0) => Len(JsonDocs) <= limit

(***************************************************************************)
(* C4.  What "v is a base-10 integer" means, read off the characters of v  *)
(* and not off ParseInt: an optional sign and one or more digits; its      *)
(* value; and whether the value fits the signed bit size.                  *)
(***************************************************************************)
Unsigned(s) == IF s # <<>> /\ s[1] \in {"+", "-"} THEN Tail(s) ELSE s

IsBase10Integer(s) ==
    /\ Unsigned(s) # <<>>
    /\ \A i \in 1..Len(Unsigned(s)) : Unsigned(s)[i] \in {Digits[j] : j \in 1..Len(Digits)}

RECURSIVE StripZeros(_)
StripZeros(t) == IF Len(t) > 1 /\ t[1] = "0" THEN StripZeros(Tail(t)) ELSE t

DigitsLeq(a, b) ==
    \/ a = b
    \/ \E i \in 1..Len(a) :
          /\ \A j \in 1..(i - 1) : a[j] = b[j]
          /\ DigitVal(a[i]) < DigitVal(b[i])

MaxInt32Digits == <<"2","1","4","7","4","8","3","6","4","7">>
MinInt32Digits == <<"2","1","4","7","4","8","3","6","4","8">>

InInt32Range(s) ==
    LET t == StripZeros(Unsigned(s))
        bound == IF s[1] = "-" THEN MinInt32Digits ELSE MaxInt32Digits
    IN  \/ Len(t) < Len(bound)
        \/ Len(t) = Len(bound) /\ DigitsLeq(t, bound)

RECURSIVE SignedValue(_, _)
SignedValue(t, sign) ==
    IF t = <<>> THEN 0
    ELSE SignedValue(SubSeq(t, 1, Len(t) - 1), sign) * 10 + sign * DigitVal(t[Len(t)])

DecimalValue(s) == SignedValue(Unsigned(s), IF s[1] = "-" THEN 0 - 1 ELSE 1)

(***************************************************************************)
(* C4 as claimed.  If v parses as a base-10 integer the predicate value is *)
(* integer-typed and equals it; otherwise it is the string v unchanged.    *)
(***************************************************************************)
C4_IntegerLiteralTyped ==
    pc = "coerced"
    => IF IsBase10Integer(literal)
       THEN /\ query.type = "int64"
            /\ InInt32Range(literal) => query.int = DecimalValue(literal)
       ELSE query.type = "string" /\ query.str = literal

(***************************************************************************)
(* C4 as amended.  If v is a base-10 integer within the signed 32-bit      *)
(* range the predicate value is integer-typed and equals it; otherwise     *)
(* (also for an integer outside that range) it is the string v unchanged.  *)
(***************************************************************************)
C4_Int32LiteralTyped ==
    pc = "coerced"
    => IF IsBase10Integer(literal) /\ InInt32Range(literal)
       THEN query.type = "int64" /\ query.int = DecimalValue(literal)
       ELSE query.type = "string" /\ query.str = literal

C4_Witness ==
    /\ pc = "coerced"
    /\ literal = <<"-">> \o MinInt32Digits
    /\ query.type = "int64"
    /\ query.int = (0 - MaxInt) - 1

(***************************************************************************)
(* C5.  With the merged project or collection empty, no Firestore client   *)
(* is ever constructed and no store operation issued; a get, documents or  *)
(* where that reaches its pre-run fails with the validation error; and the *)
(* process exits non-zero.                                                 *)
(***************************************************************************)
C5_ValidationBeforeClient ==
    ~SettingsPresent
    => /\ ~client
       /\ storeLog = <<>>
       /\ (pc \in {"main", "exited"} /\ ReachesPreRun)
             => err = "unable to validate required params"
       /\ pc = "exited" => exitCode # ExitOk

C5_Witness ==
    /\ pc = "exited"
    /\ cmd = "documents" /\ unlimited /\ flagVerbose
    /\ Resolved("project") # "" /\ Resolved("collection") = ""
    /\ err = "unable to validate required params"
    /\ exitCode = ExitError

(***************************************************************************)
(* C6.  get prints exactly one JSON line when the fetch and the encoding   *)
(* succeed; when the fetch fails it prints no JSON line and returns the    *)
(* error.                                                                  *)
(***************************************************************************)
C6_GetOneJsonLine ==
    cmd = "get"
    => /\ Len(JsonDocs) <= 1
       /\ fault = "fetch" => JsonDocs = <<>> /\ err = "unable to get document"
       /\ (pc = "exited" /\ fault = "fetch") => exitCode = ExitError
       /\ (pc \in {"main", "exited"} /\ CleanRun) => JsonDocs = <<1>> /\ err = Nil
       /\ (pc = "exited" /\ CleanRun) => exitCode = ExitOk

C6_Witness ==
    /\ pc = "exited" /\ cmd = "get" /\ verbose
    /\ fault = "fetch"
    /\ Count("Get") = 1
    /\ JsonDocs = <<>>

(***************************************************************************)
(* C7.  A stream that documents / where opened is stopped exactly once     *)
(* before the handler returns, on every exit path, and no document is      *)
(* requested from it after the stop.                                       *)
(***************************************************************************)
C7_StreamStoppedOnce ==
    /\ Count("Stop") <= Count("Documents")
    /\ Count("Documents") <= 1
    /\ (pc \in {"main", "exited"} /\ Count("Documents") = 1) => Count("Stop") = 1
    /\ \A i, j \in 1..Len(storeLog) :
          (storeLog[i] = "Stop" /\ i < j) => storeLog[j] # "Next"

C7_Witness ==
    /\ pc = "exited" /\ Listing /\ ~unlimited
    /\ fault = "none"
    /\ delivered < streamLen
    /\ Count("Stop") = 1
    /\ storeLog[Len(storeLog)] = "Stop"

(***************************************************************************)
(* C8 as claimed.  The process exits 0 if the command succeeded and 1 on   *)
(* any failure, the error message written to standard output before.       *)
(***************************************************************************)
C8_ExitZeroOrOne ==
    pc = "exited"
    => IF CleanRun THEN exitCode = ExitOk
       ELSE exitCode = ExitError /\ ErrorOnStdout

(***************************************************************************)
(* C8 as amended.  The process exits 0 if the command succeeded; 1, the    *)
(* error message written to standard output before, on any failure but a   *)
(* config file that is found and cannot be read; there initConfig panics:  *)
(* the exit status is 2 and the message goes to standard error.            *)
(***************************************************************************)
C8_ExitCodes ==
    pc = "exited"
    => IF CleanRun THEN exitCode = ExitOk /\ ~ErrorOnStdout
       ELSE IF fs.home /\ fs.file = "bad"
            THEN exitCode = ExitPanic /\ ~ErrorOnStdout /\ stderr # <<>>
       ELSE exitCode = ExitError /\ ErrorOnStdout

C8_Witness ==
    /\ pc = "exited"
    /\ fault = "configRead"
    /\ exitCode = ExitPanic
    /\ stdout = <<>>

(***************************************************************************)
(* C9.  Once the configuration is loaded, project and collection each      *)
(* resolve to the flag's value when the flag is given (also as the empty   *)
(* string), else to the config file's value when a file is found and has   *)
(* the key, else to the empty default.                                     *)
(***************************************************************************)
C9_FlagOverFileOverDefault ==
    (pc # "initConfig" /\ fault \notin {"homedir", "configRead"})
    => \A k \in Keys :
          /\ GetString(k) = Resolved(k)
          /\ flags[k].changed => GetString(k) = flags[k].val

C9_Witness ==
    /\ pc = "exited"
    /\ flags["project"] = [changed |-> TRUE, val |-> ""]
    /\ fs.file = "ok" /\ fs.content["project"] = "from-file"
    /\ GetString("project") = ""
    /\ err = "unable to validate required params"

(***************************************************************************)
(* C10.  Once fetching or encoding the k-th document of the stream has     *)
(* failed in documents / where, exactly the first k-1 documents are        *)
(* printed and stay printed, no further document is requested, and the     *)
(* command returns the failure (exit 1).                                   *)
(***************************************************************************)
StreamFailed == Listing /\ fault \in {"fetch", "encode"}

C10_FailureAbortsStream ==
    /\ [](StreamFailed
            => /\ JsonDocs = FirstN(Count("Next") - 1)
               /\ err # Nil
               /\ pc \in {"defer", "main", "exited"}
               /\ pc = "exited" => exitCode = ExitError /\ ErrorOnStdout)
    /\ [][StreamFailed
            => /\ Count("Next")' = Count("Next")
               /\ Count("Documents")' = Count("Documents")
               /\ JsonDocs' = JsonDocs
               /\ err' = err]_vars

C10_Witness ==
    /\ pc = "exited" /\ cmd = "where"
    /\ fault = "encode"
    /\ Count("Next") = 3
    /\ JsonDocs = <<1, 2>>
    /\ exitCode = ExitError

====
